---- MODULE Spec2Model ----
(***************************************************************************)
(* Model of octodns/source/tinydns.py: TinyDnsBaseSource.populate and the  *)
(* two population paths behind it (_populate_normal for forward zones,     *)
(* _populate_in_addr_arpa for reverse zones).                              *)
(*                                                                         *)
(* Text is modelled as a sequence of atoms.  An atom is a string that the  *)
(* code never looks inside: a DNS label ("example"), a number ("30"), or   *)
(* one of the characters the code treats specially (".", ":", "#", " ").   *)
(* "a.example.com" is <<"a", ".", "example", ".", "com">>.  Atoms of       *)
(* length one are single characters, which is what an unescaped "." in a   *)
(* regular expression matches.                                             *)
(*                                                                         *)
(* The model covers the symbols + = ^ . & @ C and unknown symbols.  The    *)
(* handlers for ' 3 and 6 (TXT unescaping, IPv6 re-wrapping) work inside   *)
(* the characters of a field and are outside the input alphabet.           *)
(***************************************************************************)
EXTENDS Integers, Sequences, FiniteSets, TLC

\* Longest input (number of raw lines) the model draws.
MaxLines == 2

\* TinyDnsBaseSource.__init__(self, id, default_ttl=3600)
default_ttl == 3600

-----------------------------------------------------------------------------
(* Sequence helpers                                                        *)

Range(s) == {s[i] : i \in 1..Len(s)}

Last(s) == s[Len(s)]

\* index of the first element of s equal to a, 0 when there is none
FirstIndex(s, a) ==
    LET I == {i \in 1..Len(s) : s[i] = a}
    IN  IF I = {} THEN 0 ELSE CHOOSE i \in I : \A j \in I : i <= j

RECURSIVE Concat(_)
Concat(ss) == IF ss = <<>> THEN <<>> ELSE Head(ss) \o Concat(Tail(ss))

\* s.endswith(suffix)
EndsWith(s, suffix) ==
    /\ Len(s) >= Len(suffix)
    /\ SubSeq(s, Len(s) - Len(suffix) + 1, Len(s)) = suffix

-----------------------------------------------------------------------------
(* Insertion-ordered dictionaries (Python dict / defaultdict): a sequence  *)
(* of [key, val] in insertion order.                                       *)

Find(d, k) ==
    LET I == {i \in 1..Len(d) : d[i].key = k}
    IN  IF I = {} THEN 0 ELSE CHOOSE i \in I : TRUE

Get(d, k, default) == IF Find(d, k) = 0 THEN default ELSE d[Find(d, k)].val

Put(d, k, v) ==
    IF Find(d, k) = 0
    THEN Append(d, [key |-> k, val |-> v])
    ELSE [d EXCEPT ![Find(d, k)].val = v]

\* d[k1][k2].extend(items) on a defaultdict(lambda: defaultdict(list))
Extend2(d, k1, k2, items) ==
    LET inner == Get(d, k1, <<>>)
    IN  Put(d, k1, Put(inner, k2, Get(inner, k2, <<>>) \o items))

-----------------------------------------------------------------------------
(* Tokenizing a raw line                                                   *)

\* s.split(sep, 1)[0]
BeforeFirst(s, sep) ==
    IF FirstIndex(s, sep) = 0 THEN s ELSE SubSeq(s, 1, FirstIndex(s, sep) - 1)

\* s.split(sep): always at least one field, empty fields kept
RECURSIVE Split(_, _)
Split(s, sep) ==
    LET k == FirstIndex(s, sep)
    IN  IF k = 0
        THEN <<s>>
        ELSE <<SubSeq(s, 1, k - 1)>> \o Split(SubSeq(s, k + 1, Len(s)), sep)

\* p.strip()
RECURSIVE Strip(_)
Strip(p) ==
    IF p = <<>> THEN p
    ELSE IF Head(p) = " " THEN Strip(Tail(p))
    ELSE IF Last(p) = " " THEN Strip(SubSeq(p, 1, Len(p) - 1))
    ELSE p

\* line[1:].split('#', 1)[0], then [p.strip() for p in line.split(':')]
Fields(raw) ==
    LET parts == Split(BeforeFirst(Tail(raw), "#"), ":")
    IN  [j \in 1..Len(parts) |-> Strip(parts[j])]

\* Python's 0-based line[k] on a list of fields
Has(line, k) == Len(line) > k
F(line, k) == line[k + 1]

-----------------------------------------------------------------------------
(* Zone names and the name patterns                                        *)

\* an unescaped "." of a pattern matches any one character
PatAtom(p, a) == IF p = "." THEN Len(a) = 1 ELSE a = p

\* zone.name[:-1] interpolated, unescaped, into the regular expression
ZonePattern(z) == SubSeq(z, 1, Len(z) - 1)

\* the positions k of t where ZonePattern(z) matches and then \.?$ matches
PatternEnds(z, t) ==
    LET pat == ZonePattern(z)
    IN  {k \in 1..Len(t) :
            /\ k + Len(pat) - 1 <= Len(t)
            /\ \A j \in 1..Len(pat) : PatAtom(pat[j], t[k + j - 1])
            /\ \/ k + Len(pat) - 1 = Len(t)
               \/ k + Len(pat) = Len(t) /\ t[Len(t)] = "."}

\* re.compile(fr'((?P<name>.+)\.)?{zone.name[:-1]}\.?$').match(name)
name_re_match(z, t) ==
    \E k \in PatternEnds(z, t) : k = 1 \/ (k >= 3 /\ t[k - 1] = ".")

\* zone.hostname_from_fqdn(fqdn) of the zone collaborator: the zone suffix
\* (with the dot before it and an optional trailing dot) is stripped; a name
\* that does not end in the zone is returned unchanged.
hostname_from_fqdn(z, t) ==
    LET lit  == ZonePattern(z)
        body == IF t # <<>> /\ Last(t) = "." THEN SubSeq(t, 1, Len(t) - 1) ELSE t
        cut  == Len(body) - Len(lit)
    IN  IF ~EndsWith(body, lit) THEN t
        ELSE IF cut >= 1 /\ body[cut] = "." THEN SubSeq(body, 1, cut - 1)
        ELSE SubSeq(body, 1, cut)

-----------------------------------------------------------------------------
(* Numbers and addresses                                                   *)

\* the decimal atoms of the input alphabet and their values
NumVal ==
    ("0" :> 0) @@ ("1" :> 1) @@ ("2" :> 2) @@ ("5" :> 5) @@ ("10" :> 10) @@
    ("30" :> 30) @@ ("60" :> 60) @@ ("192" :> 192)

\* int(s) succeeds
IsInt(t) == Len(t) = 1 /\ t[1] \in DOMAIN NumVal
IntOf(t) == NumVal[t[1]]

\* the address literal the + handler treats as "no address"
Placeholder == <<"0", ".", "0", ".", "0", ".", "0">>

\* ipaddress.ip_address(s) accepts s (IPv4 dotted quad)
IsIPv4(t) ==
    LET o == Split(t, ".")
    IN  /\ Len(o) = 4
        /\ \A j \in 1..4 : IsInt(o[j]) /\ IntOf(o[j]) <= 255

\* ip_address(s).reverse_pointer
reverse_pointer(t) ==
    LET o == Split(t, ".")
    IN  o[4] \o <<".">> \o o[3] \o <<".">> \o o[2] \o <<".">> \o o[1]
            \o <<".", "in-addr", ".", "arpa">>

-----------------------------------------------------------------------------
(* Symbol handlers.  A handler's result is the sequence of events it       *)
(* yields and the exception that ends it ("none" when it returns).  The    *)
(* handlers with a yield are generators: what they yield before raising    *)
(* has already been consumed by the caller.                                *)

Event(type, name, values) == [type |-> type, name |-> name, values |-> values]
Returns(events) == [events |-> events, exc |-> "none"]
Raises(events, exc) == [events |-> events, exc |-> exc]

\* "see if we can find a ttl on any of the lines, first one wins":
\*     for line in lines:
\*         try: ttl = int(lines[0][k]); break
\*         except IndexError: pass
\* reads lines[0] on every iteration; int() of a field that is no number
\* raises ValueError, which is not caught.
ttl_scan(lines, k) ==
    IF Has(lines[1], k)
    THEN IF IsInt(F(lines[1], k))
         THEN [ttl |-> IntOf(F(lines[1], k)), exc |-> "none"]
         ELSE [ttl |-> default_ttl, exc |-> "ValueError"]
    ELSE [ttl |-> default_ttl, exc |-> "none"]

\* plus_ips without the test for the placeholder address
plus_ips_unfiltered(lines) == [j \in 1..Len(lines) |-> F(lines[j], 1)]

\* ips = [l[1] for l in lines if l[1] != '0.0.0.0']
plus_ips(lines) ==
    LET kept == SelectSeq(lines, LAMBDA l : F(l, 1) # Placeholder)
    IN  [j \in 1..Len(kept) |-> F(kept[j], 1)]

records_for_plus(z, name, lines, in_addr) ==
    IF in_addr THEN Returns(<<>>)
    ELSE IF \E j \in 1..Len(lines) : ~Has(lines[j], 1) THEN Raises(<<>>, "IndexError")
    ELSE IF plus_ips(lines) = <<>> THEN Returns(<<>>)
    ELSE IF ttl_scan(lines, 2).exc # "none" THEN Raises(<<>>, ttl_scan(lines, 2).exc)
    ELSE Returns(<<Event("A", name, plus_ips(lines))>>)

\* records_for_caret raising whatever the zone
records_for_caret_raises(z, name, lines, in_addr) == Raises(<<>>, "NotImplementedError")

\* not a generator: returns [] outside a reverse zone, raises inside one
records_for_caret(z, name, lines, in_addr) ==
    IF ~in_addr THEN Returns(<<>>) ELSE Raises(<<>>, "NotImplementedError")

\* yield from _records_for_plus(...); yield from _records_for_caret(...)
records_for_equal(z, name, lines, in_addr) ==
    LET p == records_for_plus(z, name, lines, in_addr)
        c == records_for_caret(z, name, lines, in_addr)
    IN  IF p.exc # "none" THEN p ELSE Raises(p.events \o c.events, c.exc)

\* ns_target with the test for the trailing dot left out
ns_target_always_dot(z, ns) ==
    IF "." \notin Range(ns) THEN ns \o <<".", "ns", ".">> \o z ELSE ns \o <<".">>

\* the NS target of a line's field 2
ns_target(z, ns) ==
    IF "." \notin Range(ns) THEN ns \o <<".", "ns", ".">> \o z
    ELSE IF Last(ns) # "." THEN ns \o <<".">>
    ELSE ns

\* the loop over the lines of a . or & group, from line j on
RECURSIVE dot_lines(_, _, _, _, _, _)
dot_lines(z, name, lines, j, values, events) ==
    IF j > Len(lines) THEN Returns(Append(events, Event("NS", name, values)))
    ELSE IF ~Has(lines[j], 2) THEN Raises(events, "IndexError")
    ELSE LET ns == ns_target(z, F(lines[j], 2))
             ip == F(lines[j], 1)
             ev == IF ip # <<>>
                   THEN Append(events, Event("A", hostname_from_fqdn(z, ns), <<ip>>))
                   ELSE events
         IN  dot_lines(z, name, lines, j + 1, Append(values, ns), ev)

records_for_dot(z, name, lines, in_addr) ==
    IF in_addr THEN Returns(<<>>)
    ELSE IF ttl_scan(lines, 3).exc # "none" THEN Raises(<<>>, ttl_scan(lines, 3).exc)
    ELSE dot_lines(z, name, lines, 1, <<>>, <<>>)

\* the MX exchange of a line's field 2
mx_target(z, mx) ==
    IF "." \notin Range(mx) THEN mx \o <<".", "ns", ".">> \o z
    ELSE IF Last(mx) # "." THEN mx \o <<".">>
    ELSE mx

\* dist = line[3] or 0, IndexError -> 0.  The integer 0 is written as the
\* text "0".
mx_dist(line) ==
    IF Has(line, 3) /\ F(line, 3) # <<>> THEN F(line, 3) ELSE <<"0">>

RECURSIVE at_lines(_, _, _, _, _, _)
at_lines(z, name, lines, j, values, events) ==
    IF j > Len(lines) THEN Returns(Append(events, Event("MX", name, values)))
    ELSE IF ~Has(lines[j], 2) THEN Raises(events, "IndexError")
    ELSE LET mx == mx_target(z, F(lines[j], 2))
             ip == F(lines[j], 1)
             ev == IF ip # <<>>
                   THEN Append(events, Event("A", hostname_from_fqdn(z, mx), <<ip>>))
                   ELSE events
             v  == [preference |-> mx_dist(lines[j]), exchange |-> mx]
         IN  at_lines(z, name, lines, j + 1, Append(values, v), ev)

records_for_at(z, name, lines, in_addr) ==
    IF in_addr THEN Returns(<<>>)
    ELSE IF ttl_scan(lines, 4).exc # "none" THEN Raises(<<>>, ttl_scan(lines, 4).exc)
    ELSE at_lines(z, name, lines, 1, <<>>, <<>>)

records_for_C(z, name, lines, in_addr) ==
    IF in_addr THEN Returns(<<>>)
    ELSE IF ~Has(lines[1], 1) \/ F(lines[1], 1) = <<>> THEN Raises(<<>>, "IndexError")
    ELSE IF ttl_scan(lines, 2).exc # "none" THEN Raises(<<>>, ttl_scan(lines, 2).exc)
    ELSE LET value == F(lines[1], 1)
         IN  Returns(<<Event("CNAME", name,
                 <<IF Last(value) # "." THEN value \o <<".">> ELSE value>>)>>)

\* the symbols of SYMBOL_MAP that the model covers
SYMBOL_MAP == {"=", "^", ".", "C", "+", "@", "&"}

\* records_for(self, zone, name, lines): in_addr is left at its default
records_for(symbol, z, name, lines) ==
    CASE symbol = "=" -> records_for_equal(z, name, lines, FALSE)
      [] symbol = "^" -> records_for_caret(z, name, lines, FALSE)
      [] symbol = "." -> records_for_dot(z, name, lines, FALSE)
      [] symbol = "&" -> records_for_dot(z, name, lines, FALSE)
      [] symbol = "C" -> records_for_C(z, name, lines, FALSE)
      [] symbol = "+" -> records_for_plus(z, name, lines, FALSE)
      [] symbol = "@" -> records_for_at(z, name, lines, FALSE)

-----------------------------------------------------------------------------
(* Inputs: the zone being populated and the raw lines _lines() returns.    *)

ForwardZone == <<"example", ".", "com", ".">>
ReverseZone == <<"2", ".", "0", ".", "192", ".", "in-addr", ".", "arpa", ".">>

A_ex   == <<"a", ".", "example", ".", "com">>
B_ex   == <<"b", ".", "example", ".", "com">>
Host   == <<"host", ".", "example", ".", "com">>
Apex   == <<"example", ".", "com">>
Ip1    == <<"1", ".", "1", ".", "1", ".", "1">>
Ip2    == <<"2", ".", "2", ".", "2", ".", "2">>
IpRev  == <<"192", ".", "0", ".", "2", ".", "5">>
IpRev10 == <<"192", ".", "0", ".", "2", ".", "10">>
IpFar  == <<"10", ".", "0", ".", "0", ".", "1">>
Ptr5   == <<"5", ".", "2", ".", "0", ".", "192", ".", "in-addr", ".", "arpa">>

\* +a.example.com:1.1.1.1
LPlus1 == <<"+">> \o A_ex \o <<":">> \o Ip1
\* +a.example.com.: 2.2.2.2 :30 # note
LPlus2 == <<"+">> \o A_ex \o <<".", ":", " ">> \o Ip2 \o <<" ", ":", "30", " ", "#", "note">>
\* +a.example.com:0.0.0.0
LPlus0 == <<"+">> \o A_ex \o <<":">> \o Placeholder
\* +b.other.org:2.2.2.2
LOut == <<"+", "b", ".", "other", ".", "org", ":">> \o Ip2
\* +a.example-com:1.1.1.1
LDash == <<"+", "a", ".", "example", "-", "com", ":">> \o Ip1
\* +a.example.com
LShort == <<"+">> \o A_ex
\* +a.example.com:1.1.1.1::
LNoTtl == <<"+">> \o A_ex \o <<":">> \o Ip1 \o <<":", ":">>
\* =a.example.com:2.2.2.2
LEq == <<"=">> \o A_ex \o <<":">> \o Ip2
\* ^a.example.com:b.example.com
LCaret == <<"^">> \o A_ex \o <<":">> \o B_ex
\* .example.com:1.1.1.1:ns1
LDot1 == <<".">> \o Apex \o <<":">> \o Ip1 \o <<":", "ns1">>
\* .example.com::b.other.org.
LDot2 == <<".">> \o Apex \o <<":", ":", "b", ".", "other", ".", "org", ".">>
\* &example.com:0.0.0.0:a.example.com:60
LAmp == <<"&">> \o Apex \o <<":">> \o Placeholder \o <<":">> \o A_ex \o <<":", "60">>
\* @example.com::mx:10
LAt1 == <<"@">> \o Apex \o <<":", ":", "mx", ":", "10">>
\* @example.com:1.1.1.1:a.example.com
LAt2 == <<"@">> \o Apex \o <<":">> \o Ip1 \o <<":">> \o A_ex
\* Ca.example.com:b.example.com
LCname == <<"C">> \o A_ex \o <<":">> \o B_ex
\* Zexample.com:x
LUnknown == <<"Z">> \o Apex \o <<":", "x">>
\* =host.example.com:192.0.2.5
LEqRev == <<"=">> \o Host \o <<":">> \o IpRev
\* &b.example.com.:192.0.2.10:30
LAmpRev == <<"&">> \o B_ex \o <<".", ":">> \o IpRev10 \o <<":", "30">>
\* ^5.2.0.192.in-addr.arpa:host.example.com
LCaretRev == <<"^">> \o Ptr5 \o <<":">> \o Host
\* ^5.2.0.192.in-addr.arpa
LCaretShort == <<"^">> \o Ptr5
\* =b.example.com:10.0.0.1
LEqFar == <<"=">> \o B_ex \o <<":">> \o IpFar

ForwardLines ==
    {LPlus1, LPlus2, LPlus0, LOut, LDash, LShort, LNoTtl, LEq, LCaret, LDot1,
     LDot2, LAmp, LAt1, LAt2, LCname, LUnknown, LEqRev, LCaretRev}

ReverseLines ==
    {LEqRev, LAmpRev, LCaretRev, LCaretShort, LEqFar, LCaret, LPlus1, LDot2}

SeqsUpTo(S, n) == UNION {[1..m -> S] : m \in 0..n}

\* what Record.new and zone.add_record of the zone collaborator can do with
\* one record: accept it, signal a subzone record, signal a duplicate
\* record, or (Record.new) reject its data
Outcomes == {"ok", "subzone", "duplicate", "invalid"}

-----------------------------------------------------------------------------
(* State                                                                   *)

VARIABLES
    zone,       \* zone.name
    lines,      \* self._lines()
    pc,         \* where populate is
    i,          \* index of the next raw line
    symbols,    \* symbol -> name -> tokenized lines   (_process_lines)
    si, ni,     \* position of _process_symbols in symbols
    types,      \* type -> name -> values             (_process_symbols)
    events,     \* every (symbol, group name, yielded event) so far
    ti, tn,     \* position of _populate_normal in types
    submitted,  \* the records handed to zone.add_record, in order
    records,    \* the records zone.add_record accepted
    exc,        \* the exception populate raised, "none" otherwise
    addr        \* the local addr of _populate_in_addr_arpa, <<>> while unbound

vars == <<zone, lines, pc, i, symbols, si, ni, types, events, ti, tn,
          submitted, records, exc, addr>>

Init ==
    /\ \/ zone = ForwardZone /\ lines \in SeqsUpTo(ForwardLines, MaxLines)
       \/ zone = ReverseZone /\ lines \in SeqsUpTo(ReverseLines, MaxLines)
    /\ pc = "populate"
    /\ i = 1
    /\ symbols = <<>>
    /\ si = 1 /\ ni = 1
    /\ types = <<>>
    /\ events = <<>>
    /\ ti = 1 /\ tn = 1
    /\ submitted = <<>>
    /\ records = <<>>
    /\ exc = "none"
    /\ addr = <<>>

\* populate: zone.name.endswith('in-addr.arpa.')
Populate ==
    /\ pc = "populate"
    /\ pc' = IF EndsWith(zone, <<"in-addr", ".", "arpa", ".">>)
             THEN "in_addr_arpa" ELSE "process_lines"
    /\ UNCHANGED <<zone, lines, i, symbols, si, ni, types, events, ti, tn,
                   submitted, records, exc, addr>>

\* process_line assigning the group instead of appending to it
process_line_keeps_last(z, data, raw) ==
    LET line == Fields(raw)
        name == hostname_from_fqdn(z, F(line, 0))
    IN  IF ~name_re_match(z, F(line, 0)) THEN data
        ELSE Put(data, raw[1], Put(Get(data, raw[1], <<>>), name, <<line>>))

\* _process_lines, one raw line: data[symbol][name].append(line)
process_line(z, data, raw) ==
    LET line == Fields(raw)
    IN  IF ~name_re_match(z, F(line, 0)) THEN data
        ELSE Extend2(data, raw[1], hostname_from_fqdn(z, F(line, 0)), <<line>>)

ProcessLine ==
    /\ pc = "process_lines"
    /\ i <= Len(lines)
    /\ symbols' = process_line(zone, symbols, lines[i])
    /\ i' = i + 1
    /\ UNCHANGED <<zone, lines, pc, si, ni, types, events, ti, tn,
                   submitted, records, exc, addr>>

ProcessLinesDone ==
    /\ pc = "process_lines"
    /\ i > Len(lines)
    /\ pc' = "process_symbols"
    /\ UNCHANGED <<zone, lines, i, symbols, si, ni, types, events, ti, tn,
                   submitted, records, exc, addr>>

\* types[_type][name].extend(values) for each event in turn
RECURSIVE merge_events(_, _)
merge_events(t, evs) ==
    IF evs = <<>> THEN t
    ELSE merge_events(Extend2(t, Head(evs).type, Head(evs).name, Head(evs).values),
                      Tail(evs))

\* _process_symbols: a symbol SYMBOL_MAP does not know is skipped whole
SkipSymbol ==
    /\ pc = "process_symbols"
    /\ si <= Len(symbols)
    /\ symbols[si].key \notin SYMBOL_MAP
    /\ si' = si + 1
    /\ UNCHANGED <<zone, lines, pc, i, symbols, ni, types, events, ti, tn,
                   submitted, records, exc, addr>>

\* _process_symbols: one (symbol, name) group through its handler
ProcessGroup ==
    /\ pc = "process_symbols"
    /\ si <= Len(symbols)
    /\ symbols[si].key \in SYMBOL_MAP
    /\ LET symbol == symbols[si].key
           group  == symbols[si].val[ni]
           res    == records_for(symbol, zone, group.key, group.val)
       IN  /\ types' = merge_events(types, res.events)
           /\ events' = events \o [j \in 1..Len(res.events) |->
                            [symbol |-> symbol, group |-> group.key,
                             event |-> res.events[j]]]
           /\ exc' = res.exc
           /\ pc' = IF res.exc = "none" THEN pc ELSE "raised"
           /\ IF ni < Len(symbols[si].val)
              THEN ni' = ni + 1 /\ si' = si
              ELSE ni' = 1 /\ si' = si + 1
    /\ UNCHANGED <<zone, lines, i, symbols, ti, tn, submitted, records, addr>>

ProcessSymbolsDone ==
    /\ pc = "process_symbols"
    /\ si > Len(symbols)
    /\ pc' = "add_records"
    /\ UNCHANGED <<zone, lines, i, symbols, si, ni, types, events, ti, tn,
                   submitted, records, exc, addr>>

\* ttls[_type][name]: _process_symbols returns ttls without ever storing
\* into it, so every lookup yields the defaultdict's default
ttls(type, name) == default_ttl

\* record_data without the single-value case
record_data_always_values(type, name, values) ==
    [name |-> name, type |-> type, ttl |-> ttls(type, name), values |-> values]

\* the data _populate_normal builds for one (type, name)
record_data(type, name, values) ==
    IF Len(values) > 1
    THEN [name |-> name, type |-> type, ttl |-> ttls(type, name), values |-> values]
    ELSE [name |-> name, type |-> type, ttl |-> ttls(type, name), value |-> values[1]]

\* the exception a collaborator outcome stands for
Signal(outcome) ==
    CASE outcome = "invalid"   -> "ValidationError"
      [] outcome = "duplicate" -> "DuplicateRecordException"
      [] outcome = "subzone"   -> "SubzoneRecordException"
      [] OTHER                 -> "none"

\* normal_catches with the except clause left out
normal_catches_nothing(signal) == FALSE

\* _populate_normal: try: zone.add_record(...) except SubzoneRecordException
normal_catches(signal) == signal = "SubzoneRecordException"

\* _populate_normal: Record.new and zone.add_record for one (type, name)
AddRecord ==
    /\ pc = "add_records"
    /\ ti <= Len(types)
    /\ \E outcome \in Outcomes :
        LET type   == types[ti].key
            entry  == types[ti].val[tn]
            record == record_data(type, entry.key, entry.val)
            raised == IF normal_catches(Signal(outcome)) THEN "none" ELSE Signal(outcome)
        IN  /\ submitted' = IF outcome = "invalid" THEN submitted
                            ELSE Append(submitted, record)
            /\ records' = IF outcome = "ok" THEN Append(records, record) ELSE records
            /\ exc' = raised
            /\ pc' = IF raised = "none" THEN pc ELSE "raised"
            /\ IF tn < Len(types[ti].val)
               THEN tn' = tn + 1 /\ ti' = ti
               ELSE tn' = 1 /\ ti' = ti + 1
    /\ UNCHANGED <<zone, lines, i, symbols, si, ni, types, events, addr>>

AddRecordsDone ==
    /\ pc = "add_records"
    /\ ti > Len(types)
    /\ pc' = "done"
    /\ UNCHANGED <<zone, lines, i, symbols, si, ni, types, events, ti, tn,
                   submitted, records, exc, addr>>

-----------------------------------------------------------------------------
(* The reverse-zone path                                                   *)

\* self.split_re.split(line): the class under src/ reads split_re and never
\* defines it; fields are split as by the tokenizer of the forward path
split_re_split(s) == Split(s, ":")

\* line[1:].split('#', 1)[0], then [p.strip() for p in split_re.split(line)]
in_addr_fields(raw) ==
    LET parts == split_re_split(BeforeFirst(Tail(raw), "#"))
    IN  [j \in 1..Len(parts) |-> Strip(parts[j])]

\* re.compile(fr'(?P<name>.+)\.{zone.name[:-1]}\.?$').match(t): where the
\* zone pattern starts in t (greedy name), 0 when there is no match
in_addr_re_match(z, t) ==
    LET K == {k \in PatternEnds(z, t) : k >= 3 /\ t[k - 1] = "."}
    IN  IF K = {} THEN 0 ELSE CHOOSE k \in K : \A m \in K : m <= k

\* with_trailing_dot without the test
with_trailing_dot_always(value) == value \o <<".">>

\* if value[-1] != '.': value = f'{value}.'
with_trailing_dot(value) == IF Last(value) # "." THEN value \o <<".">> ELSE value

\* the body of the loop of _populate_in_addr_arpa for one line of an
\* interesting symbol, up to Record.new: the exception raised ("none"), the
\* binding of addr afterwards, and the PTR data when the name matched
in_addr_line(z, line, old_addr) ==
    LET no(e, a) == [exc |-> e, addr |-> a, match |-> FALSE]
        ptr(a, k, t, value) ==
            IF k = 0 THEN no("none", a)
            ELSE IF value = <<>> THEN no("IndexError", a)
            ELSE [exc |-> "none", addr |-> a, match |-> TRUE,
                  record |-> [name |-> SubSeq(t, 1, k - 2), type |-> "PTR",
                              ttl |-> IF Has(line, 2) THEN F(line, 2) ELSE default_ttl,
                              value |-> with_trailing_dot(value)]]
    IN  IF EndsWith(F(line, 0), <<"in-addr", ".", "arpa">>)
        THEN IF ~Has(line, 1) THEN no("IndexError", old_addr)
             ELSE ptr(old_addr, in_addr_re_match(z, F(line, 0)), F(line, 0), F(line, 1))
        ELSE IF ~Has(line, 1) THEN no("IndexError", old_addr)
             ELSE IF ~IsIPv4(F(line, 1)) THEN no("ValueError", old_addr)
             ELSE ptr(F(line, 1),
                      in_addr_re_match(z, reverse_pointer(F(line, 1))),
                      reverse_pointer(F(line, 1)), F(line, 0))

\* _populate_in_addr_arpa: a line of another symbol is passed over
InAddrSkip ==
    /\ pc = "in_addr_arpa"
    /\ i <= Len(lines)
    /\ lines[i][1] \notin {"=", "^", "&"}
    /\ i' = i + 1
    /\ UNCHANGED <<zone, lines, pc, symbols, si, ni, types, events, ti, tn,
                   submitted, records, exc, addr>>

\* _populate_in_addr_arpa: try: zone.add_record(...) except
\* DuplicateRecordException
in_addr_catches(signal) == signal = "DuplicateRecordException"

\* _populate_in_addr_arpa: one line of symbol = ^ or &.  The handler of the
\* caught exception formats addr, which is unbound until a line has taken
\* the ip_address branch.
InAddrLine ==
    /\ pc = "in_addr_arpa"
    /\ i <= Len(lines)
    /\ lines[i][1] \in {"=", "^", "&"}
    /\ \E outcome \in Outcomes :
        LET res == in_addr_line(zone, in_addr_fields(lines[i]), addr)
            raised ==
                IF res.exc # "none" THEN res.exc
                ELSE IF ~res.match THEN "none"
                ELSE IF ~in_addr_catches(Signal(outcome)) THEN Signal(outcome)
                ELSE IF res.addr = <<>> THEN "UnboundLocalError"
                ELSE "none"
            called == res.exc = "none" /\ res.match /\ outcome # "invalid"
        IN  /\ (res.exc = "none" /\ res.match) \/ outcome = "ok"
            /\ addr' = res.addr
            /\ submitted' = IF called THEN Append(submitted, res.record) ELSE submitted
            /\ records' = IF called /\ outcome = "ok"
                          THEN Append(records, res.record) ELSE records
            /\ exc' = raised
            /\ pc' = IF raised = "none" THEN pc ELSE "raised"
    /\ i' = i + 1
    /\ UNCHANGED <<zone, lines, symbols, si, ni, types, events, ti, tn>>

InAddrDone ==
    /\ pc = "in_addr_arpa"
    /\ i > Len(lines)
    /\ pc' = "done"
    /\ UNCHANGED <<zone, lines, i, symbols, si, ni, types, events, ti, tn,
                   submitted, records, exc, addr>>

Next ==
    \/ Populate
    \/ ProcessLine
    \/ ProcessLinesDone
    \/ SkipSymbol
    \/ ProcessGroup
    \/ ProcessSymbolsDone
    \/ AddRecord
    \/ AddRecordsDone
    \/ InAddrSkip
    \/ InAddrLine
    \/ InAddrDone

Spec == Init /\ [][Next]_vars

-----------------------------------------------------------------------------
(* Vocabulary of the claims                                                *)

Forward == zone = ForwardZone
Reverse == zone = ReverseZone

\* the tokenized lines of the (symbol, name) group
GroupLines(symbol, name) == Get(Get(symbols, symbol, <<>>), name, <<>>)

\* the logged events that contribute to the record (type, name), in order
Contributions(type, name) ==
    SelectSeq(events, LAMBDA e : e.event.type = type /\ e.event.name = name)

\* the record type a symbol's lines describe
PrimaryType(symbol) ==
    CASE symbol \in {"+", "="} -> "A"
      [] symbol \in {".", "&"} -> "NS"
      [] symbol = "@"          -> "MX"
      [] symbol = "C"          -> "CNAME"
      [] OTHER                 -> "none"

\* the index of the TTL field in a symbol's line format
TtlField(symbol) ==
    CASE symbol \in {".", "&"} -> 3
      [] symbol = "@"          -> 4
      [] OTHER                 -> 2

\* the TTL rule of the specification: the first line of the group, in
\* order, whose TTL field is present and an integer; the default otherwise
ClaimedTtl(symbol, ls) ==
    LET k    == TtlField(symbol)
        with == SelectSeq(ls, LAMBDA l : Has(l, k) /\ IsInt(F(l, k)))
    IN  IF with = <<>> THEN default_ttl ELSE IntOf(F(with[1], k))

\* an owner name that is the zone name or ends in .<zone>, with an optional
\* trailing dot
ClaimInZone(z, t) ==
    LET zn   == ZonePattern(z)
        body == IF t # <<>> /\ Last(t) = "." THEN SubSeq(t, 1, Len(t) - 1) ELSE t
    IN  body = zn \/ EndsWith(body, <<".">> \o zn)

\* the groups _process_lines builds from a whole input
RECURSIVE GroupsOf(_, _, _)
GroupsOf(z, data, ls) ==
    IF ls = <<>> THEN data
    ELSE GroupsOf(z, process_line(z, data, Head(ls)), Tail(ls))

-----------------------------------------------------------------------------
(* C1: in the forward path a record's TTL is the integer TTL field of the  *)
(* first line of its group that carries one, and default_ttl only when no  *)
(* line of the group carries one.  Stated for the records that a single    *)
(* symbol group contributes to.                                            *)
C1_TtlOfFirstLineWithTtl ==
    Forward =>
        \A k \in 1..Len(submitted) : \A e \in Range(events) :
            ( /\ e.event.type = submitted[k].type
              /\ e.event.name = submitted[k].name
              /\ e.event.type = PrimaryType(e.symbol)
              /\ \A e2 \in Range(Contributions(e.event.type, e.event.name)) :
                    e2.symbol = e.symbol /\ e2.group = e.group )
            => submitted[k].ttl = ClaimedTtl(e.symbol, GroupLines(e.symbol, e.group))

(* C4: a format mismatch (an unknown symbol, a line with fewer fields than *)
(* its handler reads) never aborts the pass: populate never ends in the    *)
(* IndexError of a missing field.                                          *)
C4_FormatMismatchNeverAborts ==
    Forward => exc # "IndexError"

(* C6 as written: once a ^ group of a forward zone has been through the    *)
(* dispatch, populate has raised NotImplementedError.                      *)
C6_CaretRaises ==
    (Forward /\ Find(symbols, "^") # 0 /\ si > Find(symbols, "^"))
        => exc = "NotImplementedError"

(* C6, amended: a ^ group that reaches the dispatch of a forward zone      *)
(* yields no event and raises nothing; the pass goes on as if the lines    *)
(* were not there, and NotImplementedError never leaves populate.          *)
C6_CaretIsSkipped ==
    /\ exc # "NotImplementedError"
    /\ Forward => \A e \in Range(events) : e.symbol # "^"
    /\ (Forward /\ pc = "process_symbols" /\ Find(symbols, "^") # 0
            /\ si > Find(symbols, "^")) => exc = "none"

\* a ^ group went through the dispatch and the pass completed
C6_Witness ==
    Forward /\ pc = "done" /\ Find(symbols, "^") # 0 /\ submitted # <<>>

(* C8: a line whose owner name is outside the zone contributes nothing:    *)
(* the groups built from the input are the groups built from the input     *)
(* with the out-of-zone lines removed.                                     *)
C8_OutOfZoneLinesContributeNothing ==
    (Forward /\ pc \notin {"populate", "process_lines"}) =>
        symbols = GroupsOf(zone, <<>>,
                    SelectSeq(lines, LAMBDA raw : ClaimInZone(zone, F(Fields(raw), 0))))

-----------------------------------------------------------------------------
(* More vocabulary                                                         *)

\* the values of a submitted record, whichever key carries them
RecordValues(r) == IF "values" \in DOMAIN r THEN r.values ELSE <<r.value>>

\* the positions in submitted of the A records named n
ARecords(n) ==
    {k \in 1..Len(submitted) : submitted[k].type = "A" /\ submitted[k].name = n}

\* the + lines of the input with an in-zone owner name
PlusLines ==
    SelectSeq(lines, LAMBDA raw : raw[1] = "+" /\ ClaimInZone(zone, F(Fields(raw), 0)))

\* the zone-relative owner name of a raw line
Owner(raw) == hostname_from_fqdn(zone, F(Fields(raw), 0))

PlusNames == {Owner(raw) : raw \in Range(PlusLines)}

\* the non-placeholder addresses of the + lines of owner name n, in input
\* order
PlusAddrs(n) ==
    LET mine == SelectSeq(PlusLines, LAMBDA raw :
                    /\ Owner(raw) = n
                    /\ Has(Fields(raw), 1)
                    /\ F(Fields(raw), 1) # Placeholder)
    IN  [j \in 1..Len(mine) |-> F(Fields(mine[j]), 1)]

\* p occurs in v as one contiguous run
IsRun(p, v) ==
    \E o \in 0..(Len(v) - Len(p)) : SubSeq(v, o + 1, o + Len(p)) = p

(* C2 as written: in a completed pass every owner name with + lines has    *)
(* exactly one A record, whose values are the non-placeholder addresses of *)
(* those lines in input order.                                             *)
C2_ExactlyOneRecordOfPlusAddrs ==
    (Forward /\ pc = "done") =>
        \A n \in PlusNames :
            /\ Cardinality(ARecords(n)) = 1
            /\ \A k \in ARecords(n) : RecordValues(submitted[k]) = PlusAddrs(n)

(* C2, amended: the + lines of one in-zone owner name are merged into one  *)
(* A record: at most one A record per name is ever submitted, a completed  *)
(* pass submits exactly one when some line has a non-placeholder address,  *)
(* and the record carries those addresses in input order, undeduplicated,  *)
(* as one contiguous run of its values: all of its values when no other    *)
(* symbol contributes an address for the name.                             *)
C2_PlusLinesMerged ==
    Forward =>
        \A n \in PlusNames :
            /\ Cardinality(ARecords(n)) <= 1
            /\ \A k \in ARecords(n) :
                /\ IsRun(PlusAddrs(n), RecordValues(submitted[k]))
                /\ (\A e \in Range(Contributions("A", n)) : e.symbol = "+")
                      => RecordValues(submitted[k]) = PlusAddrs(n)
            /\ (pc = "done" /\ PlusAddrs(n) # <<>>) => Cardinality(ARecords(n)) = 1

\* two + lines of one name were merged into one submitted record
C2_Witness ==
    /\ Forward /\ pc = "done"
    /\ \E n \in PlusNames : Len(PlusAddrs(n)) >= 2 /\ ARecords(n) # {}

-----------------------------------------------------------------------------
\* the octets of an address
Octets(ip) == Split(ip, ".")

\* C3's line: symbol = ^ or &, field 0 a hostname, field 1 an IPv4 address
\* whose reverse pointer lies in the zone
C3_Applies(raw) ==
    LET f == Fields(raw)
    IN  /\ raw[1] \in {"=", "^", "&"}
        /\ Has(f, 1)
        /\ F(f, 0) # <<>>
        /\ ~EndsWith(F(f, 0), <<"in-addr", ".", "arpa">>)
        /\ IsIPv4(F(f, 1))
        /\ zone = Octets(F(f, 1))[3] \o <<".">> \o Octets(F(f, 1))[2] \o <<".">>
                    \o Octets(F(f, 1))[1] \o <<".", "in-addr", ".", "arpa", ".">>

-----------------------------------------------------------------------------
\* the number of (type, name) pairs in types
TypePairs(t) == Len(Concat([j \in 1..Len(t) |-> t[j].val]))

-----------------------------------------------------------------------------
-----------------------------------------------------------------------------
\* C9's rule for a hostname field f and the target v made from it
C9_Target(f, v) ==
    IF \A j \in 1..Len(f) : f[j] # "."
    THEN v = f \o <<".", "ns", ".">> \o zone
    ELSE IF f[Len(f)] # "."
    THEN Len(v) = Len(f) + 1 /\ SubSeq(v, 1, Len(f)) = f /\ v[Len(v)] = "."
    ELSE v = f

(* C9: every NS target and MX exchange is made from the line's hostname    *)
(* field alone: <field>.ns.<zone> when the field has no dot, the field     *)
(* plus one dot when it has a dot but does not end in one, the field as it *)
(* is when it ends in a dot.                                               *)
C9_TargetFromHostnameField ==
    Forward =>
        \A e \in Range(events) :
            LET ls == GroupLines(e.symbol, e.group)
            IN  /\ e.event.type = "NS" =>
                    /\ Len(e.event.values) = Len(ls)
                    /\ \A j \in 1..Len(ls) : C9_Target(F(ls[j], 2), e.event.values[j])
                /\ e.event.type = "MX" =>
                    /\ Len(e.event.values) = Len(ls)
                    /\ \A j \in 1..Len(ls) :
                          C9_Target(F(ls[j], 2), e.event.values[j].exchange)

\* an NS group with a dotless field and one with a dotted field, or an NS
\* and an MX group, were dispatched
C9_Witness ==
    /\ Forward /\ pc = "done"
    /\ \E e \in Range(events) :
          /\ e.event.type = "NS"
          /\ "." \notin Range(F(GroupLines(e.symbol, e.group)[1], 2))
    /\ \E e \in Range(events) :
          /\ e.event.type \in {"NS", "MX"}
          /\ "." \in Range(F(GroupLines(e.symbol, e.group)[1], 2))

-----------------------------------------------------------------------------
\* all values the events contribute to (type, name), in aggregation order
Aggregated(type, name) ==
    LET c == Contributions(type, name)
    IN  Concat([j \in 1..Len(c) |-> c[j].event.values])

(* C10: in the forward path nothing is handed to the store before every    *)
(* symbol group has been dispatched; each (type, name) is handed over at   *)
(* most once, as one record carrying every value any line of any symbol    *)
(* contributed to it, in aggregation order: under value when there is one  *)
(* value, under values when there are more.                                *)
C10_OneRecordPerPair ==
    Forward =>
        /\ submitted # <<>> =>
              si > Len(symbols) /\ pc \in {"add_records", "done", "raised"}
        /\ \A j, k \in 1..Len(submitted) :
              (submitted[j].type = submitted[k].type
                  /\ submitted[j].name = submitted[k].name) => j = k
        /\ \A k \in 1..Len(submitted) :
              LET r == submitted[k]
                  v == Aggregated(r.type, r.name)
              IN  /\ v # <<>>
                  /\ Len(v) = 1 => "value" \in DOMAIN r /\ r.value = v[1]
                  /\ Len(v) > 1 => "values" \in DOMAIN r /\ r.values = v

\* a record with values from two symbols and a record with a single value
\* were handed over in one pass
C10_Witness ==
    /\ Forward /\ pc = "done"
    /\ \E k \in 1..Len(submitted) :
          /\ "values" \in DOMAIN submitted[k]
          /\ \E e1, e2 \in Range(Contributions(submitted[k].type, submitted[k].name)) :
                e1.symbol # e2.symbol
    /\ \E k \in 1..Len(submitted) : "value" \in DOMAIN submitted[k]

====
